---- MODULE Spec2Model ----
(***************************************************************************)
(* A model of raven (src/main.go): a line producer (iter), the             *)
(* deduplicating dispatch loop of main, the fetcher goroutines sharing a   *)
(* pool of http clients, and the aggregator goroutine folding results      *)
(* into flockMetrics.                                                      *)
(*                                                                         *)
(* Strings are sequences of one-character strings.  A line of the source   *)
(* is kept without its newline; ReadString gives it back with "\n".        *)
(***************************************************************************)
EXTENDS Integers, Sequences, FiniteSets, TLC

\* ------------------------------------------------------------------ bounds

\* the longest file over the core lines
MaxLines == 2
\* the longest file over the two framings of one locator
MaxFramed == 3
\* the largest value of the concurrency flag
MaxConcurrency == 2
\* the capacity of the producer's channel (100 in the code), scaled down
OutCap == 1

\* ----------------------------------------------------------------- strings

NL == "\n"

\* the characters unicode.IsSpace takes, among those the model uses
SpaceChars == {" ", NL, "\t", "\r"}

RECURSIVE TrimLeft(_, _)
TrimLeft(s, cut) ==
  IF s # <<>> /\ Head(s) \in cut THEN TrimLeft(Tail(s), cut) ELSE s

RECURSIVE TrimRight(_, _)
TrimRight(s, cut) ==
  IF s # <<>> /\ s[Len(s)] \in cut
    THEN TrimRight(SubSeq(s, 1, Len(s) - 1), cut)
    ELSE s

\* strings.Trim(s, cutset)
Trim(s, cut) == TrimRight(TrimLeft(s, cut), cut)

\* strings.TrimSpace(s)
TrimSpace(s) == Trim(s, SpaceChars)

\* strings.HasPrefix / strings.HasSuffix with a one-character argument
HasPrefix(s, c) == s # <<>> /\ Head(s) = c
HasSuffix(s, c) == s # <<>> /\ s[Len(s)] = c

\* the envelope test of iter: trimmed starts with "{" and ends with "}"
Envelope(s) == HasPrefix(TrimSpace(s), "{") /\ HasSuffix(TrimSpace(s), "}")

\* strings.Trim(s, "{\" \n}")
Cleanse(s) == Trim(s, {"{", "\"", " ", NL, "}"})

\* url.Parse: over the model's alphabet (no scheme, host, query or fragment)
\* the whole string is a path, and a path is rejected exactly when it holds
\* a "%" that is not followed by two hex digits; the alphabet has no hex
\* digit, so every "%" is an invalid escape.
UrlParseOk(s) == \A i \in 1..Len(s) : s[i] # "%"

Digits == {"0", "1", "2", "3", "4", "5", "6", "7", "8", "9"}

DigitVal(c) ==
  CASE c = "0" -> 0 [] c = "1" -> 1 [] c = "2" -> 2 [] c = "3" -> 3
    [] c = "4" -> 4 [] c = "5" -> 5 [] c = "6" -> 6 [] c = "7" -> 7
    [] c = "8" -> 8 [] c = "9" -> 9

RECURSIVE DecVal(_)
DecVal(s) ==
  IF s = <<>> THEN 0
  ELSE 10 * DecVal(SubSeq(s, 1, Len(s) - 1)) + DigitVal(s[Len(s)])

AllDigits(s) == s # <<>> /\ \A i \in 1..Len(s) : s[i] \in Digits

\* strconv.Atoi: an optional sign, then one or more decimal digits
AtoiOk(s) ==
  IF s # <<>> /\ Head(s) \in {"+", "-"} THEN AllDigits(Tail(s)) ELSE AllDigits(s)

AtoiVal(s) ==
  IF Head(s) = "-" THEN 0 - DecVal(Tail(s))
  ELSE IF Head(s) = "+" THEN DecVal(Tail(s))
  ELSE DecVal(s)

\* ------------------------------------------------------------------ inputs

\* {"x"}
LineX == <<"{", "\"", "x", "\"", "}">>
\* { "x" }
LineXSpaced == <<"{", " ", "\"", "x", "\"", " ", "}">>
\* {"y"}
LineY == <<"{", "\"", "y", "\"", "}">>
\* {"z"}
LineZ == <<"{", "\"", "z", "\"", "}">>
\* {"%"}: unwraps to a string url.Parse rejects
LineBadUrl == <<"{", "\"", "%", "\"", "}">>
\* not-an-envelope
LineNoEnvelope == <<"x">>

RECURSIVE SeqsUpTo(_, _)
SeqsUpTo(S, n) ==
  IF n = 0 THEN {<<>>}
  ELSE LET shorter == SeqsUpTo(S, n - 1)
       IN shorter \cup {Append(s, x) : s \in {t \in shorter : Len(t) = n - 1}, x \in S}

\* The input files, in three families:
\* every file of up to MaxLines lines over two locators, a line url.Parse
\* rejects and a line that is no envelope;
CoreLines == {LineX, LineY, LineBadUrl, LineNoEnvelope}
\* every file of up to MaxFramed lines over the two framings of one locator;
FramedLines == {LineX, LineXSpaced}
\* and the file of three distinct valid locators.
DistinctSource == <<LineX, LineY, LineZ>>

Sources ==
  SeqsUpTo(CoreLines, MaxLines)
    \cup SeqsUpTo(FramedLines, MaxFramed)
    \cup {DistinctSource}

\* values of the max-lines flag: unlimited, none, and a budget that bites
MaxLinesFlags == {-1, 0, 1}


\* values of the concurrency flag main accepts (it exits on <= 0)
Concurrencies == 1..MaxConcurrency

\* what client.Get can give back: a transport error, or a response with a
\* status code and a Content-Length header ("" when the header is absent)
Transport == [err |-> TRUE, status |-> 0, header |-> <<>>]
Reply(status, header) == [err |-> FALSE, status |-> status, header |-> header]

AllResponses ==
  { Transport,
    Reply(404, <<>>),
    Reply(200, <<>>),
    Reply(200, <<"x">>),
    Reply(200, <<"-", "5">>),
    Reply(200, <<"7">>),
    Reply(200, <<"1", "2">>) }

\* how the server behind each locator may answer: the one behind x in every
\* way, the one behind y with or without a length, the others with a length
Responses(url) ==
  IF url = <<"x">> THEN AllResponses
  ELSE IF url = <<"y">> THEN {Reply(200, <<>>), Reply(200, <<"7">>)}
  ELSE {Reply(200, <<"7">>)}

NoResponse == Reply(0, <<>>)

\* ------------------------------------------------------------------ values

\* Go's error values: nil, or what the fetcher builds
NilErr == [kind |-> "nil", status |-> 0, text |-> <<>>]
TransportErr == [kind |-> "transport", status |-> 0, text |-> <<>>]
StatusErr(status) == [kind |-> "invalid status code", status |-> status, text |-> <<>>]
NoLengthErr(status, url) == [kind |-> "no-content-length", status |-> status, text |-> url]
AtoiErr(value) == [kind |-> "atoi", status |-> 0, text |-> value]

\* a ravenResult; the fields a literal leaves out hold Go's zero values
Raven(url, exception, ambiguous, size, status) ==
  [url |-> url, completed |-> TRUE, status |-> status, exception |-> exception,
   size |-> size, ambiguous |-> ambiguous]

\* no result yet (a nil *ravenResult)
NoRaven ==
  [url |-> <<>>, completed |-> FALSE, status |-> 0, exception |-> NilErr,
   size |-> 0, ambiguous |-> FALSE]

\* the classification, had the length been looked at before the status
ClassifyLengthFirst(url, resp) ==
  IF resp.err THEN Raven(url, TransportErr, FALSE, 0, 0)
  ELSE IF Len(resp.header) <= 0
    THEN Raven(url, NoLengthErr(resp.status, url), TRUE, 0, 0)
  ELSE IF resp.status > 399 THEN Raven(url, StatusErr(resp.status), FALSE, 0, 0)
  ELSE IF ~AtoiOk(resp.header) THEN Raven(url, AtoiErr(resp.header), TRUE, 0, 0)
  ELSE Raven(url, NilErr, FALSE, AtoiVal(resp.header), resp.status)

\* the result resultProcessor.fetch sends for a url, given what Get returned
Classify(url, resp) ==
  IF resp.err THEN Raven(url, TransportErr, FALSE, 0, 0)
  ELSE IF resp.status > 399 THEN Raven(url, StatusErr(resp.status), FALSE, 0, 0)
  ELSE IF Len(resp.header) <= 0
    THEN Raven(url, NoLengthErr(resp.status, url), TRUE, 0, 0)
  ELSE IF ~AtoiOk(resp.header) THEN Raven(url, AtoiErr(resp.header), TRUE, 0, 0)
  ELSE Raven(url, NilErr, FALSE, AtoiVal(resp.header), resp.status)

\* the zero flockMetrics main builds; average is kept as the pair
\* <<numerator, denominator>> of the division that computes it
NewMetrics ==
  [failed |-> 0, average |-> <<0, 1>>, sum |-> 0, max |-> 0, min |-> 0,
   count |-> 0, sizes |-> <<>>, ambiguous |-> <<>>]

\* add, had "m.count += 1" stood after the early return
AddCountsSuccesses(m, r) ==
  LET noted == IF r.ambiguous
                 THEN [m EXCEPT !.ambiguous = Append(@, r.exception)]
                 ELSE m
  IN IF r.exception # NilErr
       THEN [noted EXCEPT !.failed = @ + 1]
       ELSE [noted EXCEPT !.count = @ + 1,
                          !.max = IF @ < r.size THEN r.size ELSE @,
                          !.min = IF @ > r.size THEN r.size ELSE @,
                          !.sizes = Append(@, r.size),
                          !.sum = @ + r.size]

\* add, had "m.sum += raven.size" stood inside the "m.max < raven.size" branch
AddSumsNewMaxima(m, r) ==
  LET counted == [m EXCEPT !.count = @ + 1]
      noted == IF r.ambiguous
                 THEN [counted EXCEPT !.ambiguous = Append(@, r.exception)]
                 ELSE counted
  IN IF r.exception # NilErr
       THEN [noted EXCEPT !.failed = @ + 1]
       ELSE [noted EXCEPT !.max = IF @ < r.size THEN r.size ELSE @,
                          !.min = IF @ > r.size THEN r.size ELSE @,
                          !.sizes = Append(@, r.size),
                          !.sum = IF m.max < r.size THEN @ + r.size ELSE @]

\* add, had the ambiguous branch returned before "m.failed += 1"
AddAmbiguousReturns(m, r) ==
  LET counted == [m EXCEPT !.count = @ + 1]
  IN IF r.ambiguous
       THEN [counted EXCEPT !.ambiguous = Append(@, r.exception)]
     ELSE IF r.exception # NilErr
       THEN [counted EXCEPT !.failed = @ + 1]
     ELSE [counted EXCEPT !.max = IF @ < r.size THEN r.size ELSE @,
                          !.min = IF @ > r.size THEN r.size ELSE @,
                          !.sizes = Append(@, r.size),
                          !.sum = @ + r.size]

\* add, had the "return" after "m.failed += 1" been left out
AddNoReturn(m, r) ==
  LET counted == [m EXCEPT !.count = @ + 1]
      noted == IF r.ambiguous
                 THEN [counted EXCEPT !.ambiguous = Append(@, r.exception)]
                 ELSE counted
      failed == IF r.exception # NilErr
                  THEN [noted EXCEPT !.failed = @ + 1]
                  ELSE noted
  IN [failed EXCEPT !.max = IF @ < r.size THEN r.size ELSE @,
                    !.min = IF @ > r.size THEN r.size ELSE @,
                    !.sizes = Append(@, r.size),
                    !.sum = @ + r.size]

\* flockMetrics.add
Add(m, r) ==
  LET counted == [m EXCEPT !.count = @ + 1]
      noted == IF r.ambiguous
                 THEN [counted EXCEPT !.ambiguous = Append(@, r.exception)]
                 ELSE counted
  IN IF r.exception # NilErr
       THEN [noted EXCEPT !.failed = @ + 1]
       ELSE [noted EXCEPT !.max = IF @ < r.size THEN r.size ELSE @,
                          !.min = IF @ > r.size THEN r.size ELSE @,
                          !.sizes = Append(@, r.size),
                          !.sum = @ + r.size]

\* the average, had it been taken over the size samples only
WithAverageOfSuccesses(m) == [m EXCEPT !.average = <<m.sum, Len(m.sizes)>>]

\* rollup.average = float64(rollup.sum) / float64(rollup.count)
WithAverage(m) == [m EXCEPT !.average = <<m.sum, m.count>>]

\* the lookup, had it never found a line
PresentNever(dups, line) == FALSE

\* the dedup map of main
Present(dups, line) == line \in dups

\* the dedup map, had "duplicates[line] = true" been left out
MarkSeenForgotten(dups, line) == dups

MarkSeen(dups, line) == dups \cup {line}

\* the WaitGroup counter after group.Done()
Done(n) == n - 1

\* the pool, had the fetcher kept its client
ReturnedNever(q, client) == q

\* the deferred p.queue <- client
Returned(q, client) == Append(q, client)

\* ------------------------------------------------------------------- state

VARIABLES
  source,       \* the lines of the input file, in order, without newlines
  terminated,   \* whether the last line of the file ends with a newline
  maxLines,     \* options.maxLines
  concurrency,  \* options.concurrency
  pos,          \* iter: how many lines ReadString has handed out
  start,        \* iter: the accepted-line counter
  out,          \* iter: the buffered channel of unwrapped lines
  outClosed,    \* iter: close(out) has run
  pc,           \* main: where the main goroutine stands
  duplicates,   \* main: the dedup map (its key set)
  leader,       \* main: lines taken from the producer
  wg,           \* main: the WaitGroup counter
  fetchers,     \* one record per goroutine started by go processor.fetch
  queue,        \* the buffered channel of *http.Client, as client ids
  resultsClosed,\* close(results) has run
  apc,          \* aggregator goroutine: where it stands
  received,     \* aggregator: its local counter
  raven,        \* aggregator: the result the loop body is working on
  rollup,       \* the flockMetrics
  printed,      \* how many "done:" summaries main has printed
  accepted,     \* history: the raw lines iter unwrapped and sent, in order
  taken,        \* history: the lines main received from iter, in order
  verdicts,     \* history: what the dispatch loop did with each line it took
  emitted,      \* history: the results sent on the results channel, in order
  folded        \* history: the results rollup.add has been called with

vars ==
  <<source, terminated, maxLines, concurrency, pos, start, out, outClosed, pc,
    duplicates, leader, wg, fetchers, queue, resultsClosed, apc, received,
    raven, rollup, printed, accepted, taken, verdicts, emitted, folded>>

inputVars == <<source, terminated, maxLines, concurrency>>
iterVars == <<pos, start, out, outClosed, accepted>>
mainVars == <<pc, duplicates, leader, wg, taken, verdicts, printed>>
aggVars == <<apc, received, raven, rollup, folded>>

\* the pool, had the filling loop never run
FullQueueEmpty(n) == <<>>

\* the pool, had the filling loop run once too often
FullQueueOneMore(n) == [i \in 1..(n + 1) |-> i]

\* the pool after main's loop "fetchers <- &http.Client{}"
FullQueue(n) == [i \in 1..n |-> i]

Init ==
  /\ source \in Sources
  /\ terminated \in (IF source = <<>> THEN {TRUE} ELSE BOOLEAN)
  /\ maxLines \in MaxLinesFlags
  /\ concurrency \in Concurrencies
  /\ pos = 0
  /\ start = 0
  /\ out = <<>>
  /\ outClosed = FALSE
  /\ pc = "loop"
  /\ duplicates = {}
  /\ leader = 0
  /\ wg = 0
  /\ fetchers = <<>>
  /\ queue = FullQueue(concurrency)
  /\ resultsClosed = FALSE
  /\ apc = "recv"
  /\ received = 0
  /\ raven = NoRaven
  /\ rollup = NewMetrics
  /\ printed = 0
  /\ accepted = <<>>
  /\ taken = <<>>
  /\ verdicts = <<>>
  /\ emitted = <<>>
  /\ folded = <<>>

\* ------------------------------------------------------------------- iter

\* the loop condition of iter
Budget == maxLines < 0 \/ start < maxLines

\* buffered.ReadString('\n') succeeds: a whole line, newline included, is left
CanRead == pos + 1 < Len(source) \/ (pos + 1 = Len(source) /\ terminated)

\* the string ReadString returns for the next line
NextRead == Append(source[pos + 1], NL)

\* the skip, had "start = start + 1" stood before the envelope test
IterSkipCounted ==
  /\ ~outClosed /\ Budget /\ CanRead
  /\ ~Envelope(NextRead)
  /\ pos' = pos + 1
  /\ start' = start + 1
  /\ UNCHANGED <<out, outClosed, accepted>>
  /\ UNCHANGED <<inputVars, mainVars, aggVars, fetchers, queue, resultsClosed, emitted>>

\* a line that fails the envelope test: logged, and the loop continues
IterSkip ==
  /\ ~outClosed /\ Budget /\ CanRead
  /\ ~Envelope(NextRead)
  /\ pos' = pos + 1
  /\ UNCHANGED <<start, out, outClosed, accepted>>
  /\ UNCHANGED <<inputVars, mainVars, aggVars, fetchers, queue, resultsClosed, emitted>>

\* a line that passes: counted, unwrapped and sent (the send waits for room)
IterEmit ==
  /\ ~outClosed /\ Budget /\ CanRead
  /\ Envelope(NextRead)
  /\ Len(out) < OutCap
  /\ pos' = pos + 1
  /\ start' = start + 1
  /\ out' = Append(out, Cleanse(NextRead))
  /\ accepted' = Append(accepted, source[pos + 1])
  /\ UNCHANGED outClosed
  /\ UNCHANGED <<inputVars, mainVars, aggVars, fetchers, queue, resultsClosed, emitted>>

\* the budget is used up, or ReadString returned an error: close(out)
IterClose ==
  /\ ~outClosed
  /\ ~Budget \/ ~CanRead
  /\ outClosed' = TRUE
  /\ UNCHANGED <<pos, start, out, accepted>>
  /\ UNCHANGED <<inputVars, mainVars, aggVars, fetchers, queue, resultsClosed, emitted>>

\* ------------------------------------------------------------------- main

\* a goroutine started by "go processor.fetch(url, wg)"
NewFetcher(url) ==
  [pc |-> "acquire", url |-> url, client |-> 0, resp |-> NoResponse, raven |-> NoRaven]

\* the line is in the dedup map: logged as a duplicate
MainDuplicate ==
  /\ pc = "loop" /\ out # <<>>
  /\ Present(duplicates, Head(out))
  /\ out' = Tail(out)
  /\ leader' = leader + 1
  /\ taken' = Append(taken, Head(out))
  /\ verdicts' = Append(verdicts, "duplicate")
  /\ UNCHANGED <<pc, duplicates, wg, printed>>
  /\ UNCHANGED <<pos, start, outClosed, accepted>>
  /\ UNCHANGED <<inputVars, aggVars, fetchers, queue, resultsClosed, emitted>>

\* the parse failure, had "duplicates[line] = true" stood before url.Parse
MainBadUrlMarks ==
  /\ pc = "loop" /\ out # <<>>
  /\ ~Present(duplicates, Head(out))
  /\ ~UrlParseOk(Head(out))
  /\ out' = Tail(out)
  /\ leader' = leader + 1
  /\ duplicates' = MarkSeen(duplicates, Head(out))
  /\ taken' = Append(taken, Head(out))
  /\ verdicts' = Append(verdicts, "badurl")
  /\ UNCHANGED <<pc, wg, printed>>
  /\ UNCHANGED <<pos, start, outClosed, accepted>>
  /\ UNCHANGED <<inputVars, aggVars, fetchers, queue, resultsClosed, emitted>>

\* url.Parse fails: logged, not marked as seen
MainBadUrl ==
  /\ pc = "loop" /\ out # <<>>
  /\ ~Present(duplicates, Head(out))
  /\ ~UrlParseOk(Head(out))
  /\ out' = Tail(out)
  /\ leader' = leader + 1
  /\ taken' = Append(taken, Head(out))
  /\ verdicts' = Append(verdicts, "badurl")
  /\ UNCHANGED <<pc, duplicates, wg, printed>>
  /\ UNCHANGED <<pos, start, outClosed, accepted>>
  /\ UNCHANGED <<inputVars, aggVars, fetchers, queue, resultsClosed, emitted>>

\* a new url: marked as seen, wg.Add(1), go processor.fetch
MainDispatch ==
  /\ pc = "loop" /\ out # <<>>
  /\ ~Present(duplicates, Head(out))
  /\ UrlParseOk(Head(out))
  /\ out' = Tail(out)
  /\ leader' = leader + 1
  /\ duplicates' = MarkSeen(duplicates, Head(out))
  /\ wg' = wg + 1
  /\ fetchers' = Append(fetchers, NewFetcher(Head(out)))
  /\ taken' = Append(taken, Head(out))
  /\ verdicts' = Append(verdicts, "fetch")
  /\ UNCHANGED <<pc, printed>>
  /\ UNCHANGED <<pos, start, outClosed, accepted>>
  /\ UNCHANGED <<inputVars, aggVars, queue, resultsClosed, emitted>>

\* the range over iter ends: reader.Close(), then on to wg.Wait()
MainLoopExit ==
  /\ pc = "loop" /\ out = <<>> /\ outClosed
  /\ pc' = "wait"
  /\ UNCHANGED <<duplicates, leader, wg, taken, verdicts, printed>>
  /\ UNCHANGED <<iterVars, inputVars, aggVars, fetchers, queue, resultsClosed, emitted>>

\* the barrier, had wg.Wait() been left out
MainWaitNoBarrier ==
  /\ pc = "wait"
  /\ pc' = "close"
  /\ UNCHANGED <<duplicates, leader, wg, taken, verdicts, printed>>
  /\ UNCHANGED <<iterVars, inputVars, aggVars, fetchers, queue, resultsClosed, emitted>>

\* wg.Wait() returns
MainWait ==
  /\ pc = "wait" /\ wg = 0
  /\ pc' = "close"
  /\ UNCHANGED <<duplicates, leader, wg, taken, verdicts, printed>>
  /\ UNCHANGED <<iterVars, inputVars, aggVars, fetchers, queue, resultsClosed, emitted>>

\* the step after the barrier, had close(results) been left out
MainCloseForgotten ==
  /\ pc = "close"
  /\ pc' = "semo"
  /\ UNCHANGED <<duplicates, leader, wg, taken, verdicts, printed>>
  /\ UNCHANGED <<iterVars, inputVars, aggVars, fetchers, queue, resultsClosed, emitted>>

\* close(results)
MainClose ==
  /\ pc = "close"
  /\ resultsClosed' = TRUE
  /\ pc' = "semo"
  /\ UNCHANGED <<duplicates, leader, wg, taken, verdicts, printed>>
  /\ UNCHANGED <<iterVars, inputVars, aggVars, fetchers, queue, emitted>>

\* the step after close(results), had "<-semo" been left out
MainSemoNoWait ==
  /\ pc = "semo"
  /\ pc' = "report"
  /\ UNCHANGED <<duplicates, leader, wg, taken, verdicts, printed>>
  /\ UNCHANGED <<aggVars, iterVars, inputVars, fetchers, queue, resultsClosed, emitted>>

\* the rendezvous on semo: the aggregator sends, main receives
MainSemo ==
  /\ pc = "semo" /\ apc = "signal"
  /\ pc' = "report"
  /\ apc' = "end"
  /\ UNCHANGED <<duplicates, leader, wg, taken, verdicts, printed>>
  /\ UNCHANGED <<received, raven, rollup, folded>>
  /\ UNCHANGED <<iterVars, inputVars, fetchers, queue, resultsClosed, emitted>>

\* the average is computed and the summary printed
MainReport ==
  /\ pc = "report"
  /\ rollup' = WithAverage(rollup)
  /\ printed' = printed + 1
  /\ pc' = "done"
  /\ UNCHANGED <<duplicates, leader, wg, taken, verdicts>>
  /\ UNCHANGED <<apc, received, raven, folded>>
  /\ UNCHANGED <<iterVars, inputVars, fetchers, queue, resultsClosed, emitted>>

\* ---------------------------------------------------------------- fetchers

Fetchers == DOMAIN fetchers

\* client := <-p.queue
Acquire(i) ==
  /\ fetchers[i].pc = "acquire"
  /\ queue # <<>>
  /\ fetchers' = [fetchers EXCEPT ![i].client = Head(queue), ![i].pc = "get"]
  /\ queue' = Tail(queue)
  /\ UNCHANGED <<iterVars, inputVars, mainVars, aggVars, resultsClosed, emitted>>

\* client.Get returns, and the result to send is built
Get(i) ==
  /\ fetchers[i].pc = "get"
  /\ \E resp \in Responses(fetchers[i].url) :
       fetchers' = [fetchers EXCEPT ![i].resp = resp,
                                    ![i].raven = Classify(fetchers[i].url, resp),
                                    ![i].pc = "send"]
  /\ UNCHANGED <<iterVars, inputVars, mainVars, aggVars, queue, resultsClosed, emitted>>

\* the send, had the "return" after the invalid-status send been left out:
\* the fetcher goes on to the Content-Length checks and sends again
SendFallsThrough(i) ==
  /\ fetchers[i].pc = "send"
  /\ apc = "recv" /\ ~resultsClosed
  /\ fetchers' =
       IF fetchers[i].raven.exception.kind = "invalid status code"
         THEN [fetchers EXCEPT ![i].raven =
                 Classify(fetchers[i].url, Reply(200, fetchers[i].resp.header))]
         ELSE [fetchers EXCEPT ![i].pc = "release"]
  /\ raven' = fetchers[i].raven
  /\ apc' = "fold"
  /\ emitted' = Append(emitted, fetchers[i].raven)
  /\ UNCHANGED <<received, rollup, folded>>
  /\ UNCHANGED <<iterVars, inputVars, mainVars, queue, resultsClosed>>

\* p.results <- result: the channel is unbuffered, so the send completes
\* together with the aggregator's receive of the next loop iteration
Send(i) ==
  /\ fetchers[i].pc = "send"
  /\ apc = "recv" /\ ~resultsClosed
  /\ fetchers' = [fetchers EXCEPT ![i].pc = "release"]
  /\ raven' = fetchers[i].raven
  /\ apc' = "fold"
  /\ emitted' = Append(emitted, fetchers[i].raven)
  /\ UNCHANGED <<received, rollup, folded>>
  /\ UNCHANGED <<iterVars, inputVars, mainVars, queue, resultsClosed>>

\* the deferred p.queue <- client (after response.Body.Close())
Release(i) ==
  /\ fetchers[i].pc = "release"
  /\ queue' = Returned(queue, fetchers[i].client)
  /\ fetchers' = [fetchers EXCEPT ![i].client = 0, ![i].pc = "wgdone"]
  /\ UNCHANGED <<iterVars, inputVars, mainVars, aggVars, resultsClosed, emitted>>

\* the deferred group.Done()
WgDone(i) ==
  /\ fetchers[i].pc = "wgdone"
  /\ wg' = Done(wg)
  /\ fetchers' = [fetchers EXCEPT ![i].pc = "finished"]
  /\ UNCHANGED <<pc, duplicates, leader, taken, verdicts, printed>>
  /\ UNCHANGED <<iterVars, inputVars, aggVars, queue, resultsClosed, emitted>>

\* -------------------------------------------------------------- aggregator

\* the loop body: received += 1, rollup.add(raven)
Fold ==
  /\ apc = "fold"
  /\ received' = received + 1
  /\ rollup' = Add(rollup, raven)
  /\ folded' = Append(folded, raven)
  /\ raven' = NoRaven
  /\ apc' = "recv"
  /\ UNCHANGED <<iterVars, inputVars, mainVars, fetchers, queue, resultsClosed, emitted>>

\* the range over results ends on the closed channel
Drained ==
  /\ apc = "recv" /\ resultsClosed
  /\ apc' = "signal"
  /\ UNCHANGED <<received, raven, rollup, folded>>
  /\ UNCHANGED <<iterVars, inputVars, mainVars, fetchers, queue, resultsClosed, emitted>>

\* ----------------------------------------------------------- specification

Next ==
  \/ IterSkip
  \/ IterEmit
  \/ IterClose
  \/ MainDuplicate
  \/ MainBadUrl
  \/ MainDispatch
  \/ MainLoopExit
  \/ MainWait
  \/ MainClose
  \/ MainSemo
  \/ MainReport
  \/ \E i \in Fetchers : Acquire(i)
  \/ \E i \in Fetchers : Get(i)
  \/ \E i \in Fetchers : Send(i)
  \/ \E i \in Fetchers : Release(i)
  \/ \E i \in Fetchers : WgDone(i)
  \/ Fold
  \/ Drained

Spec == Init /\ [][Next]_vars

\* some goroutine that can take a step eventually takes one (a call to
\* client.Get that can return eventually does): the least the Go scheduler
\* and a network that answers guarantee
FairSpec == Spec /\ WF_vars(Next)

\* ------------------------------------------------------------------ claims

InFlightPcs == {"get", "send", "release"}
PastSendPcs == {"release", "wgdone", "finished"}
PastBarrierPcs == {"close", "semo", "report", "done"}

\* the fetchers that hold a client: acquired, not yet sent back
InFlight == {i \in Fetchers : fetchers[i].pc \in InFlightPcs}

\* the fetchers whose client.Get has returned
Fetched == {i \in Fetchers : fetchers[i].pc \notin {"acquire", "get"}}

\* what iter made of the k-th line it accepted
LineOf(k) == Cleanse(Append(accepted[k], NL))

\* the unwrapped texts, among what iter accepted, that url.Parse takes
ValidLocators ==
  {LineOf(k) : k \in {j \in 1..Len(accepted) : UrlParseOk(LineOf(j))}}

IsFailure(r) == r.exception # NilErr
IsSuccess(r) == r.exception = NilErr
IsAmbiguous(r) == r.ambiguous

RECURSIVE SumOf(_)
SumOf(s) == IF s = <<>> THEN 0 ELSE Head(s) + SumOf(Tail(s))

SizesOf(rs) == [k \in 1..Len(rs) |-> rs[k].size]
ErrorsOf(rs) == [k \in 1..Len(rs) |-> rs[k].exception]

\* C1: the fetchers holding a client are never more than the configured
\* concurrency (with concurrency 1, never two), and when the run is over
\* every distinct valid locator has been fetched once.
C1_BoundedInFlight ==
  /\ Cardinality(InFlight) <= concurrency
  /\ concurrency = 1 =>
       \A i, j \in InFlight : i = j
  /\ pc = "done" =>
       /\ Cardinality(Fetched) = Cardinality(ValidLocators)
       /\ Len(fetchers) = Cardinality(ValidLocators)

\* C1 witness: concurrency 1, three distinct locators dispatched, one fetch
\* in flight and the two others waiting for the client
C1_Witness ==
  /\ concurrency = 1
  /\ Len(fetchers) = 3
  /\ Cardinality(InFlight) = 1
  /\ Cardinality({i \in Fetchers : fetchers[i].pc = "acquire"}) = 2

\* the lines main has taken whose unwrapped text parses as a URL
TakenValid == {k \in 1..leader : UrlParseOk(LineOf(k))}

\* C2 as stated: a raw line that iter accepted more than once, and that
\* parses, is dispatched at its first occurrence and skipped as a duplicate
\* at every later one, so exactly one fetcher exists for it.
C2_RawLineOnce ==
  \A k \in TakenValid :
    Cardinality({j \in 1..Len(accepted) : accepted[j] = accepted[k]}) > 1 =>
      /\ verdicts[k] =
           IF \E j \in 1..(k - 1) : accepted[j] = accepted[k]
             THEN "duplicate" ELSE "fetch"
      /\ Cardinality({i \in Fetchers : fetchers[i].url = LineOf(k)}) = 1

\* C2 amended: the same, with lines identified by their unwrapped text
\* rather than by their raw text.
C2_UnwrappedOnce ==
  \A k \in {j \in 1..leader : UrlParseOk(taken[j])} :
    /\ verdicts[k] =
         IF \E j \in 1..(k - 1) : taken[j] = taken[k]
           THEN "duplicate" ELSE "fetch"
    /\ Cardinality({i \in Fetchers : fetchers[i].url = taken[k]}) = 1

\* C2 witness: a line was skipped as a duplicate while the fetch of its first
\* occurrence has not yet acquired a client
C2_Witness ==
  \E k \in TakenValid :
    /\ verdicts[k] = "duplicate"
    /\ \E i \in Fetchers :
         fetchers[i].url = LineOf(k) /\ fetchers[i].pc = "acquire"

\* the run is over: iter has closed its channel, every fetcher has finished,
\* the results channel is closed, the aggregator has signalled, and exactly
\* one summary has been printed
Completed ==
  /\ pc = "done"
  /\ outClosed /\ out = <<>>
  /\ \A i \in Fetchers : fetchers[i].pc = "finished"
  /\ resultsClosed
  /\ apc = "end"
  /\ printed = 1

\* C3: under fair scheduling every run ends completed, and stays so
C3_RunCompletes == <>[]Completed

\* C3 witness: a completed run of three fetches, two of which failed
C3_Witness ==
  /\ Completed
  /\ Len(fetchers) = 3
  /\ rollup.failed = 2

\* C4: count is the number of results the aggregator has folded, and when
\* the run is over it is the number of locators that were dispatched: the
\* distinct unwrapped texts that parse.
C4_CountIsFolded ==
  /\ rollup.count = Len(folded)
  /\ rollup.count = received
  /\ pc = "done" =>
       /\ rollup.count = Len(fetchers)
       /\ rollup.count = Cardinality(ValidLocators)
       /\ rollup.count = Cardinality({k \in 1..leader : verdicts[k] = "fetch"})

\* C4 witness: a finished run that folded a failure and two successes
C4_Witness ==
  /\ pc = "done"
  /\ rollup.count = 3
  /\ rollup.failed = 1

\* C5: a client is out of the pool exactly while a fetcher holds it; a
\* fetcher past its release holds none, whatever it sent; once wg.Wait has
\* returned the pool is full again.
C5_ClientsReturned ==
  /\ \A c \in 1..concurrency :
       Cardinality({k \in 1..Len(queue) : queue[k] = c})
         + Cardinality({i \in InFlight : fetchers[i].client = c}) = 1
  /\ \A i \in Fetchers : fetchers[i].client # 0 <=> i \in InFlight
  /\ pc \in PastBarrierPcs => Len(queue) = concurrency

\* C5 witness: past the barrier, after fetches that ended on the transport
\* error path and on the success path
C5_Witness ==
  /\ pc \in PastBarrierPcs
  /\ \E i, j \in Fetchers :
       /\ fetchers[i].raven.exception = TransportErr
       /\ IsSuccess(fetchers[j].raven) /\ fetchers[j].raven.completed

\* how often a result for url stands in a sequence of results
Occurrences(rs, url) == Cardinality({k \in 1..Len(rs) : rs[k].url = url})

\* the result the aggregator has received and not yet folded
Pending == IF apc = "fold" THEN <<raven>> ELSE <<>>

\* C6: a fetcher has sent nothing before its send and exactly one result,
\* the one it built, from then on; the aggregator folds the results in the
\* order sent, each once, and when the run is over it has folded one result
\* per dispatched fetcher.
C6_OneResultEach ==
  /\ \A i \in Fetchers :
       IF fetchers[i].pc \in PastSendPcs
         THEN /\ Occurrences(emitted, fetchers[i].url) = 1
              /\ \E k \in 1..Len(emitted) : emitted[k] = fetchers[i].raven
         ELSE Occurrences(emitted, fetchers[i].url) = 0
  /\ Len(emitted) = Cardinality({i \in Fetchers : fetchers[i].pc \in PastSendPcs})
  /\ emitted = folded \o Pending
  /\ pc = "done" => Len(folded) = Len(fetchers)

\* C6 witness: one result folded and another one received but not yet
\* folded, the two from different branches of the classification
C6_Witness ==
  /\ Len(folded) = 1
  /\ apc = "fold"
  /\ IsFailure(folded[1])
  /\ IsSuccess(raven)

\* how fetcher i's result must follow from what client.Get gave it
Classified(i) ==
  LET resp == fetchers[i].resp
      r == fetchers[i].raven
  IN /\ r.completed /\ r.url = fetchers[i].url
     /\ resp.err => IsFailure(r) /\ ~r.ambiguous
     /\ ~resp.err /\ resp.status >= 400 => IsFailure(r) /\ ~r.ambiguous
     /\ ~resp.err /\ resp.status < 400 /\ resp.header = <<>> =>
          IsFailure(r) /\ r.ambiguous
     /\ ~resp.err /\ resp.status < 400 /\ resp.header # <<>> /\ AtoiOk(resp.header) =>
          IsSuccess(r) /\ r.size = AtoiVal(resp.header) /\ r.status = resp.status
     /\ resp = Reply(200, <<"1", "2">>) => r.size = 12
     /\ r.ambiguous => IsFailure(r)
     /\ IsFailure(r) => r.size = 0

\* C7: the classification goes by the first rule that matches: transport
\* failure, then status >= 400 (not ambiguous, even without a length), then
\* missing length (ambiguous), then a parseable length (success with the
\* parsed size and the status); ambiguous only ever on an error result.
C7_ClassifiedInOrder == \A i \in Fetched : Classified(i)

\* C7 witness: a fetch answered 404 without a length, and a fetch that
\* succeeded, both with their results built
C7_Witness ==
  \E i, j \in Fetched :
    /\ fetchers[i].resp = Reply(404, <<>>)
    /\ fetchers[j].resp = Reply(200, <<"7">>)

\* a Content-Length that reads as a non-negative integer
NonNegativeLength(h) == AtoiOk(h) /\ AtoiVal(h) >= 0

\* C8 as stated: a status below 400 with a Content-Length that is present
\* but is no non-negative integer gives an ambiguous error result without a
\* size, and no such length ever becomes a size sample.
C8_BadLengthIsAmbiguous ==
  /\ \A i \in Fetched :
       LET resp == fetchers[i].resp
       IN ~resp.err /\ resp.status < 400 /\ resp.header # <<>>
            /\ ~NonNegativeLength(resp.header) =>
              /\ IsFailure(fetchers[i].raven)
              /\ fetchers[i].raven.ambiguous
              /\ fetchers[i].raven.size = 0
  /\ \A k \in 1..Len(rollup.sizes) : rollup.sizes[k] >= 0

\* C9: every folded success has min <= size <= max, sum is the sum of the
\* sizes of the folded successes, and sizes holds exactly those sizes.
C9_SizesAccounted ==
  LET successes == SelectSeq(folded, IsSuccess)
  IN /\ \A k \in 1..Len(successes) :
          rollup.min <= successes[k].size /\ successes[k].size <= rollup.max
     /\ rollup.sum = SumOf(SizesOf(successes))
     /\ rollup.sizes = SizesOf(successes)

\* C9 witness: three successes folded, the largest size in the middle
C9_Witness == rollup.sizes = <<7, 12, 7>>

\* C10: failed counts the folded results that carry an error, ambiguous
\* holds the errors of the folded ambiguous results in the order folded,
\* and there are never more ambiguous errors than failures.
C10_FailuresAccounted ==
  /\ rollup.failed = Len(SelectSeq(folded, IsFailure))
  /\ rollup.ambiguous = ErrorsOf(SelectSeq(folded, IsAmbiguous))
  /\ Len(rollup.ambiguous) <= rollup.failed

\* C10 witness: a success and two ambiguous results folded, the ambiguous
\* result for y (no length) before the one for x (unparseable length)
C10_Witness ==
  /\ rollup.failed = 2
  /\ Len(folded) = 3
  /\ Len(rollup.ambiguous) = 2
  /\ rollup.ambiguous[1].text = <<"y">>
  /\ rollup.ambiguous[2].kind = "atoi"

\* C11: the results channel is closed only once iter has closed its channel,
\* main has drained it and every dispatched fetcher has finished (so none is
\* left to send on the closed channel); the aggregator signals only once the
\* channel is closed and it has folded every result sent; the average is
\* computed and the summary printed only after that signal.
C11_CompletionOrder ==
  /\ resultsClosed <=> pc \in {"semo", "report", "done"}
  /\ resultsClosed =>
       /\ outClosed /\ out = <<>>
       /\ wg = 0
       /\ \A i \in Fetchers : fetchers[i].pc = "finished"
  /\ apc \in {"signal", "end"} => resultsClosed /\ folded = emitted
  /\ pc \in {"report", "done"} => apc = "end"
  /\ rollup.average # NewMetrics.average \/ printed > 0 => pc = "done"

\* C11 witness: the results channel is already closed while the aggregator
\* still holds the last of two results unfolded
C11_Witness ==
  /\ resultsClosed
  /\ apc = "fold"
  /\ Len(fetchers) = 2
  /\ Len(folded) = 1

\* the envelope test on a line of the source
EnvelopeLine(l) == Envelope(Append(l, NL))

\* C12: a line that fails the envelope test is passed over without being
\* sent and without being counted, so what iter has sent is exactly the
\* envelope lines among those it has read; with max-lines >= 0 it sends at
\* most max-lines lines (none for 0) and no more fetches than that are
\* dispatched; with max-lines < 0 only the end of the source stops it.
C12_SkipsAndBudget ==
  /\ start = Len(accepted)
  /\ accepted = SelectSeq(SubSeq(source, 1, pos), EnvelopeLine)
  /\ maxLines >= 0 =>
       /\ start <= maxLines
       /\ leader <= maxLines
       /\ Len(fetchers) <= maxLines
  /\ maxLines = 0 => accepted = <<>> /\ fetchers = <<>>
  /\ maxLines < 0 /\ outClosed => ~CanRead

\* C12 witness: with a budget of one line, the line after a skipped one was
\* still sent and dispatched
C12_Witness ==
  /\ maxLines = 1
  /\ Len(source) = 2
  /\ source[1] = LineNoEnvelope
  /\ outClosed
  /\ Len(accepted) = 1
  /\ Len(fetchers) = 1

\* C13: the dedup map holds exactly the locators a fetcher was started for,
\* as many as wg.Add(1) was called and as many as lines were dispatched; a
\* line url.Parse rejects is neither marked nor dispatched, so the same line
\* coming again is parsed and rejected again; a duplicate adds nothing.
C13_SeenIsDispatched ==
  /\ duplicates = {fetchers[i].url : i \in Fetchers}
  /\ Cardinality(duplicates) = Len(fetchers)
  /\ Cardinality(duplicates) =
       wg + Cardinality({i \in Fetchers : fetchers[i].pc = "finished"})
  /\ Cardinality(duplicates) =
       Cardinality({k \in 1..leader : verdicts[k] = "fetch"})
  /\ \A k \in 1..leader :
       ~UrlParseOk(taken[k]) =>
         verdicts[k] = "badurl" /\ ~Present(duplicates, taken[k])

\* C13 witness: the same unparseable line was taken twice and rejected by
\* url.Parse both times
C13_Witness ==
  /\ leader = 2
  /\ taken[1] = taken[2]
  /\ verdicts = <<"badurl", "badurl">>

\* C14 as stated: lines are the same for deduplication exactly when their
\* raw text is the same, so a line is skipped as a duplicate only after an
\* earlier line with the same raw text, and of the lines sharing one raw
\* text exactly one is dispatched.
C14_RawIdentity ==
  \A k \in TakenValid :
    /\ verdicts[k] = "duplicate" =>
         \E j \in 1..(k - 1) : accepted[j] = accepted[k]
    /\ Cardinality({j \in TakenValid :
                      accepted[j] = accepted[k] /\ verdicts[j] = "fetch"}) = 1

\* C14 amended: lines are the same for deduplication exactly when their
\* unwrapped text is the same: what main receives for a line is its unwrapped
\* text, the dedup map holds the received texts that parse, a line
\* is skipped as a duplicate only after an earlier line with the same
\* unwrapped text, and of the lines sharing one unwrapped text exactly one
\* is dispatched.
C14_UnwrappedIdentity ==
  LET valid == {k \in 1..leader : UrlParseOk(taken[k])}
  IN /\ \A k \in 1..leader : taken[k] = LineOf(k)
     /\ duplicates = {taken[k] : k \in valid}
     /\ \A k \in valid :
          /\ verdicts[k] = "duplicate" =>
               \E j \in 1..(k - 1) : taken[j] = taken[k]
          /\ Cardinality({j \in valid :
                            taken[j] = taken[k] /\ verdicts[j] = "fetch"}) = 1

\* C14 witness: two lines that differ as raw text and unwrap to the same
\* text; the second was skipped as a duplicate of the first
C14_Witness ==
  \E j, k \in TakenValid :
    /\ j < k
    /\ accepted[j] # accepted[k]
    /\ taken[j] = taken[k]
    /\ verdicts[j] = "fetch"
    /\ verdicts[k] = "duplicate"

\* the largest and the smallest member of a non-empty sequence of integers
Largest(s) == CHOOSE x \in {s[k] : k \in 1..Len(s)} : \A k \in 1..Len(s) : s[k] <= x
Smallest(s) == CHOOSE x \in {s[k] : k \in 1..Len(s)} : \A k \in 1..Len(s) : x <= s[k]

\* C15 as stated: once a success has been folded, max is the largest and
\* min the smallest size among the successes folded so far.
C15_MinMaxExact ==
  LET sizes == SizesOf(SelectSeq(folded, IsSuccess))
  IN sizes # <<>> =>
       /\ rollup.max = Largest(sizes)
       /\ rollup.min = Smallest(sizes)

\* a step of the aggregator that folds the result it holds
FoldStep == apc = "fold" /\ apc' = "recv"

\* C16: folding a result that carries an error leaves min, max, sum and
\* sizes as they were and changes only count (by one), failed (by one) and,
\* for an ambiguous result, the list of ambiguous errors (its error is
\* appended; otherwise the list stays); folding a success leaves failed and
\* the list of ambiguous errors as they were.
C16_FoldFrame ==
  [][FoldStep =>
       /\ rollup'.count = rollup.count + 1
       /\ rollup'.average = rollup.average
       /\ IsFailure(raven) =>
            /\ rollup'.min = rollup.min
            /\ rollup'.max = rollup.max
            /\ rollup'.sum = rollup.sum
            /\ rollup'.sizes = rollup.sizes
            /\ rollup'.failed = rollup.failed + 1
            /\ rollup'.ambiguous =
                 IF raven.ambiguous
                   THEN Append(rollup.ambiguous, raven.exception)
                   ELSE rollup.ambiguous
       /\ IsSuccess(raven) =>
            /\ rollup'.failed = rollup.failed
            /\ rollup'.ambiguous = rollup.ambiguous
            /\ rollup'.sizes = Append(rollup.sizes, raven.size)]_vars

\* C16 witness: after a success with a size, a plain failure and an
\* ambiguous one were folded, and the size fields are still the success's
C16_Witness ==
  /\ Len(folded) = 3
  /\ IsSuccess(folded[1]) /\ folded[1].size = 7
  /\ IsFailure(folded[2]) /\ ~folded[2].ambiguous
  /\ folded[3].ambiguous
  /\ rollup.sizes = <<7>> /\ rollup.max = 7 /\ rollup.sum = 7

\* a step that changes the flockMetrics
RollupWritten == rollup' # rollup

\* C17: the flockMetrics is written only by the aggregator's fold and by
\* main's computation of the average; main computes the average (and
\* prints) only when the aggregator has folded every result sent, has left
\* its loop and has signalled, so never while a fold can still happen; no
\* step of iter or of a fetcher changes it.
C17_SingleOwner ==
  [][/\ RollupWritten =>
          \/ FoldStep /\ pc \notin {"report", "done"}
          \/ /\ pc = "report" /\ pc' = "done"
             /\ apc = "end" /\ apc' = "end"
             /\ resultsClosed /\ folded = emitted
             /\ \A i \in Fetchers : fetchers[i].pc = "finished"
     /\ (fetchers' # fetchers \/ pos' # pos \/ outClosed' # outClosed) =>
          rollup' = rollup
     /\ pc' \in {"report", "done"} => apc' = "end"]_vars

\* C17 witness: main has written the average after the aggregator folded
\* two results and signalled
C17_Witness ==
  /\ pc = "done"
  /\ apc = "end"
  /\ Len(folded) = 2
  /\ rollup.average = <<7, 2>>

\* "a * n = S" for a quotient a kept as <<numerator, denominator>>: with
\* denominator 0 the float64 division gives NaN or an infinity, and no
\* product of those equals an integer
TimesIs(a, n, S) == a[2] # 0 /\ a[1] * n = S * a[2]

C19_NoDeadlock == [](Completed \/ ENABLED Next)

\* C19 witness: main waits at the barrier, one fetcher waits for a client
\* with the pool empty, another waits to send while it holds a client and
\* the aggregator is busy folding
C19_Witness ==
  /\ pc = "wait" /\ wg = 3
  /\ queue = <<>>
  /\ apc = "fold"
  /\ \E i, j \in Fetchers :
       /\ fetchers[i].pc = "acquire"
       /\ fetchers[j].pc = "send" /\ fetchers[j].client # 0

\* the first n members of a sequence, all of them when n < 0 or n > Len(s)
Take(s, n) == IF n < 0 \/ n > Len(s) THEN s ELSE SubSeq(s, 1, n)

\* C20 as stated: iter sends the envelope lines of the source in source
\* order, each once, and when it has closed its channel it has sent all of
\* them up to the max-lines budget, a last line without a newline included.
C20_EmitsEveryValidLine ==
  /\ \E n \in 0..Len(source) :
       accepted = Take(SelectSeq(source, EnvelopeLine), n)
  /\ outClosed =>
       accepted = Take(SelectSeq(source, EnvelopeLine), maxLines)

====
